---- MODULE Spec2Model ----
(***************************************************************************)
(* A model of the emseries storage engine: the append-only log, the        *)
(* primary map element_for_key, the Indexer strategies and the Series      *)
(* operations open / put / update / delete / get / search_range.           *)
(***************************************************************************)
EXTENDS Integers, Sequences, FiniteSets, TLC

\* ---------------------------------------------------------------------
\* Bounds of the model
\* ---------------------------------------------------------------------
MaxId == 2
MaxLog == 3
MaxBad == 1
MaxFail == 1

\* UniqueId: opaque, totally ordered (derive(Ord) on the wrapped Uuid).
Ids == 1 .. MaxId

\* The tag strings records may carry.
Tags == {"a", "b"}

\* The record type T, reduced to what Recordable exposes: a timestamp
\* (DateTimeTz, totally ordered) and the tag vector tags() returns.  tags() is a
\* Vec<String>, so order matters and a tag may repeat.  The records the
\* callers store and update with are drawn from these: pairs that differ in
\* the timestamp only, in the tags only, in both, or in nothing indexed.
Values ==
    {[ts |-> 1, tags |-> << >>],
     [ts |-> 2, tags |-> << >>],
     [ts |-> 1, tags |-> <<"a">>],
     [ts |-> 2, tags |-> <<"b">>],
     [ts |-> 1, tags |-> <<"a", "b">>],
     [ts |-> 2, tags |-> <<"a", "a">>]}

Times == {v.ts : v \in Values}

timestamp(v) == v.ts

tags(v) == v.tags

\* Option<T>: None is the empty sequence, Some(v) the one-element sequence.
None == << >>

Some(v) == <<v>>

\* The Indexer implementations a Series can be opened with.
Strategies == {"NoIndex", "IndexByTime", "IndexByAllTags", "IndexBySelectedTags"}

\* The argument given to IndexBySelectedTags::for_tags.
SelectedTags == <<"a">>

\* ---------------------------------------------------------------------
\* Maps (AHashMap / HashMap / BTreeMap) as functions on their key set
\* ---------------------------------------------------------------------
EmptyMap == << >>

\* An insert that drops the other keys.
MapInsert_alone(m, k, v) == [x \in {k} |-> v]

MapInsert(m, k, v) == [x \in (DOMAIN m) \cup {k} |-> IF x = k THEN v ELSE m[x]]

\* A remove that leaves the key in.
MapRemove_kept(m, k) == m

MapRemove(m, k) == [x \in (DOMAIN m) \ {k} |-> m[x]]

\* ---------------------------------------------------------------------
\* Log lines
\* ---------------------------------------------------------------------
\* A line that does not decode as a DeletableRecord.
GarbageLine == [kind |-> "garbage", id |-> 0, data |-> None]

\* write_line that loses the value.
write_line_no_data(id, data) == [kind |-> "entry", id |-> id, data |-> None]

\* DeletableRecord::write_line: the line appended for DeletableRecord{id, data}.
write_line(id, data) == [kind |-> "entry", id |-> id, data |-> data]

\* TryFrom<&str> for DeletableRecord: decode one line.
try_from(line) ==
    IF line.kind = "entry"
    THEN [ok |-> TRUE, id |-> line.id, data |-> line.data]
    ELSE [ok |-> FALSE, id |-> 0, data |-> None]

\* load_from with a tombstone line skipped instead of applied.
RECURSIVE load_from_keep_deleted(_, _, _)
load_from_keep_deleted(lines, i, records) ==
    IF i > Len(lines)
    THEN [ok |-> TRUE, records |-> records]
    ELSE LET record == try_from(lines[i])
         IN  IF ~record.ok
             THEN [ok |-> FALSE, records |-> EmptyMap]
             ELSE load_from_keep_deleted(lines, i + 1,
                      IF record.data # None
                      THEN MapInsert(records, record.id, record.data[1])
                      ELSE records)

\* load_from with a line that does not decode skipped instead of fatal.
RECURSIVE load_from_skip_bad(_, _, _)
load_from_skip_bad(lines, i, records) ==
    IF i > Len(lines)
    THEN [ok |-> TRUE, records |-> records]
    ELSE LET record == try_from(lines[i])
         IN  IF ~record.ok
             THEN load_from_skip_bad(lines, i + 1, records)
             ELSE load_from_skip_bad(lines, i + 1,
                      IF record.data # None
                      THEN MapInsert(records, record.id, record.data[1])
                      ELSE MapRemove(records, record.id))

RECURSIVE load_from(_, _, _)
load_from(lines, i, records) ==
    IF i > Len(lines)
    THEN [ok |-> TRUE, records |-> records]
    ELSE LET record == try_from(lines[i])
         IN  IF ~record.ok
             THEN [ok |-> FALSE, records |-> EmptyMap]
             ELSE load_from(lines, i + 1,
                      IF record.data # None
                      THEN MapInsert(records, record.id, record.data[1])
                      ELSE MapRemove(records, record.id))

\* load_file that takes the first line for a header and skips it.
load_file_skip_first(lines) == load_from(lines, 2, EmptyMap)

\* Series::load_file: fold the lines in file order, fail on the first bad one.
load_file(lines) == load_from(lines, 1, EmptyMap)

\* ---------------------------------------------------------------------
\* Sorted id buckets (Vec<UniqueId>), 1-based
\* ---------------------------------------------------------------------
RECURSIVE binary_search_in(_, _, _, _)
binary_search_in(s, id, lo, hi) ==
    IF lo >= hi
    THEN [found |-> FALSE, idx |-> lo]
    ELSE LET mid == (lo + hi) \div 2
         IN  IF s[mid] = id
             THEN [found |-> TRUE, idx |-> mid]
             ELSE IF s[mid] < id
                  THEN binary_search_in(s, id, mid + 1, hi)
                  ELSE binary_search_in(s, id, lo, mid)

\* slice::binary_search: Ok(idx) when found, Err(insertion point) otherwise.
binary_search(s, id) == binary_search_in(s, id, 1, Len(s) + 1)

\* An insert that ignores the position and pushes at the end.
vec_insert_at_end(s, idx, id) == Append(s, id)

\* Vec::insert(idx, id)
vec_insert(s, idx, id) == SubSeq(s, 1, idx - 1) \o <<id>> \o SubSeq(s, idx, Len(s))

\* Vec::remove(idx)
vec_remove(s, idx) == SubSeq(s, 1, idx - 1) \o SubSeq(s, idx + 1, Len(s))

SeqRange(s) == {s[i] : i \in 1 .. Len(s)}

\* ---------------------------------------------------------------------
\* IndexByTime
\* ---------------------------------------------------------------------
IndexByTime_insert_raw(m, id, ts) ==
    LET new_bucket == IF ts \in DOMAIN m THEN m[ts] ELSE << >>
        idx == binary_search(new_bucket, id).idx
    IN  MapInsert(m, ts, vec_insert(new_bucket, idx, id))

\* The two expect() calls panic when the bucket or the id is missing.
IndexByTime_remove_raw(m, id, ts) ==
    IF ts \notin DOMAIN m
    THEN [panic |-> TRUE, m |-> m]
    ELSE LET r == binary_search(m[ts], id)
         IN  IF ~r.found
             THEN [panic |-> TRUE, m |-> m]
             ELSE [panic |-> FALSE, m |-> MapInsert(m, ts, vec_remove(m[ts], r.idx))]

IndexByTime_insert(ix, id, rec) ==
    [ix EXCEPT !.ids_by_time = IndexByTime_insert_raw(@, id, timestamp(rec))]

IndexByTime_remove(ix, id, rec) ==
    LET r == IndexByTime_remove_raw(ix.ids_by_time, id, timestamp(rec))
    IN  [panic |-> r.panic, ix |-> [ix EXCEPT !.ids_by_time = r.m]]

IndexByTime_update(ix, id, old, new) ==
    IF timestamp(old) # timestamp(new)
    THEN LET r == IndexByTime_remove(ix, id, old)
         IN  IF r.panic THEN r
             ELSE [panic |-> FALSE, ix |-> IndexByTime_insert(r.ix, id, new)]
    ELSE [panic |-> FALSE, ix |-> ix]

\* ---------------------------------------------------------------------
\* IndexByAllTags
\* ---------------------------------------------------------------------
IndexByAllTags_insert_raw(m, id, tag) ==
    LET new_bucket == IF tag \in DOMAIN m THEN m[tag] ELSE << >>
        idx == binary_search(new_bucket, id).idx
    IN  MapInsert(m, tag, vec_insert(new_bucket, idx, id))

IndexByAllTags_remove_raw(m, id, tag) ==
    IF tag \notin DOMAIN m
    THEN [panic |-> TRUE, m |-> m]
    ELSE LET r == binary_search(m[tag], id)
         IN  IF ~r.found
             THEN [panic |-> TRUE, m |-> m]
             ELSE [panic |-> FALSE, m |-> MapInsert(m, tag, vec_remove(m[tag], r.idx))]

RECURSIVE IndexByAllTags_insert_from(_, _, _, _)
IndexByAllTags_insert_from(m, id, tl, i) ==
    IF i > Len(tl) THEN m
    ELSE IndexByAllTags_insert_from(IndexByAllTags_insert_raw(m, id, tl[i]), id, tl, i + 1)

RECURSIVE IndexByAllTags_remove_from(_, _, _, _)
IndexByAllTags_remove_from(m, id, tl, i) ==
    IF i > Len(tl) THEN [panic |-> FALSE, m |-> m]
    ELSE LET r == IndexByAllTags_remove_raw(m, id, tl[i])
         IN  IF r.panic THEN r
             ELSE IndexByAllTags_remove_from(r.m, id, tl, i + 1)

IndexByAllTags_insert(ix, id, rec) ==
    [ix EXCEPT !.ids_by_tag = IndexByAllTags_insert_from(@, id, tags(rec), 1)]

IndexByAllTags_remove(ix, id, rec) ==
    LET r == IndexByAllTags_remove_from(ix.ids_by_tag, id, tags(rec), 1)
    IN  [panic |-> r.panic, ix |-> [ix EXCEPT !.ids_by_tag = r.m]]

IndexByAllTags_update(ix, id, old, new) ==
    IF tags(old) # tags(new)
    THEN LET r == IndexByAllTags_remove(ix, id, old)
         IN  IF r.panic THEN r
             ELSE [panic |-> FALSE, ix |-> IndexByAllTags_insert(r.ix, id, new)]
    ELSE [panic |-> FALSE, ix |-> ix]

\* ---------------------------------------------------------------------
\* IndexBySelectedTags
\* ---------------------------------------------------------------------
\* for_tags: one empty bucket per listed tag.
for_tags(tl) == [t \in SeqRange(tl) |-> << >>]

\* insert_raw that makes a bucket for a tag it does not track.
IndexBySelectedTags_insert_raw_any_tag(m, id, tag) ==
    LET new_bucket == IF tag \in DOMAIN m THEN m[tag] ELSE << >>
        idx == binary_search(new_bucket, id).idx
    IN  MapInsert(m, tag, vec_insert(new_bucket, idx, id))

IndexBySelectedTags_insert_raw(m, id, tag) ==
    IF tag \in DOMAIN m
    THEN LET idx == binary_search(m[tag], id).idx
         IN  MapInsert(m, tag, vec_insert(m[tag], idx, id))
    ELSE m

IndexBySelectedTags_remove_raw(m, id, tag) ==
    IF tag \in DOMAIN m
    THEN LET r == binary_search(m[tag], id)
         IN  IF ~r.found
             THEN [panic |-> TRUE, m |-> m]
             ELSE [panic |-> FALSE, m |-> MapInsert(m, tag, vec_remove(m[tag], r.idx))]
    ELSE [panic |-> FALSE, m |-> m]

RECURSIVE IndexBySelectedTags_insert_from(_, _, _, _)
IndexBySelectedTags_insert_from(m, id, tl, i) ==
    IF i > Len(tl) THEN m
    ELSE IndexBySelectedTags_insert_from(
             IndexBySelectedTags_insert_raw(m, id, tl[i]), id, tl, i + 1)

RECURSIVE IndexBySelectedTags_remove_from(_, _, _, _)
IndexBySelectedTags_remove_from(m, id, tl, i) ==
    IF i > Len(tl) THEN [panic |-> FALSE, m |-> m]
    ELSE LET r == IndexBySelectedTags_remove_raw(m, id, tl[i])
         IN  IF r.panic THEN r
             ELSE IndexBySelectedTags_remove_from(r.m, id, tl, i + 1)

IndexBySelectedTags_insert(ix, id, rec) ==
    [ix EXCEPT !.ids_by_tag = IndexBySelectedTags_insert_from(@, id, tags(rec), 1)]

IndexBySelectedTags_remove(ix, id, rec) ==
    LET r == IndexBySelectedTags_remove_from(ix.ids_by_tag, id, tags(rec), 1)
    IN  [panic |-> r.panic, ix |-> [ix EXCEPT !.ids_by_tag = r.m]]

IndexBySelectedTags_update(ix, id, old, new) ==
    IF tags(old) # tags(new)
    THEN LET r == IndexBySelectedTags_remove(ix, id, old)
         IN  IF r.panic THEN r
             ELSE [panic |-> FALSE, ix |-> IndexBySelectedTags_insert(r.ix, id, new)]
    ELSE [panic |-> FALSE, ix |-> ix]

\* ---------------------------------------------------------------------
\* IndexByTags
\* ---------------------------------------------------------------------
\* IndexByTags::default: no bucket yet, buckets made on demand.
IndexByTags_default ==
    [kind |-> "IndexByTags",
     ids_by_time |-> EmptyMap,
     ids_by_tag |-> EmptyMap,
     may_make_new_buckets |-> TRUE]

\* IndexByTags::for_tags: one empty bucket per listed tag, and no other ever.
IndexByTags_for_tags(tl) ==
    [kind |-> "IndexByTags",
     ids_by_time |-> EmptyMap,
     ids_by_tag |-> for_tags(tl),
     may_make_new_buckets |-> FALSE]

IndexByTags_insert_raw(ix, id, tag) ==
    IF ix.may_make_new_buckets \/ tag \in DOMAIN ix.ids_by_tag
    THEN LET new_bucket == IF tag \in DOMAIN ix.ids_by_tag THEN ix.ids_by_tag[tag]
                           ELSE << >>
             idx == binary_search(new_bucket, id).idx
         IN  [ix EXCEPT !.ids_by_tag = MapInsert(@, tag, vec_insert(new_bucket, idx, id))]
    ELSE ix

IndexByTags_remove_raw(ix, id, tag) ==
    IF tag \notin DOMAIN ix.ids_by_tag
    THEN [panic |-> TRUE, ix |-> ix]
    ELSE LET r == binary_search(ix.ids_by_tag[tag], id)
         IN  IF ~r.found
             THEN [panic |-> TRUE, ix |-> ix]
             ELSE [panic |-> FALSE,
                   ix |-> [ix EXCEPT !.ids_by_tag =
                               MapInsert(@, tag, vec_remove(ix.ids_by_tag[tag], r.idx))]]

RECURSIVE IndexByTags_insert_from(_, _, _, _)
IndexByTags_insert_from(ix, id, tl, i) ==
    IF i > Len(tl) THEN ix
    ELSE IndexByTags_insert_from(IndexByTags_insert_raw(ix, id, tl[i]), id, tl, i + 1)

RECURSIVE IndexByTags_remove_from(_, _, _, _)
IndexByTags_remove_from(ix, id, tl, i) ==
    IF i > Len(tl) THEN [panic |-> FALSE, ix |-> ix]
    ELSE LET r == IndexByTags_remove_raw(ix, id, tl[i])
         IN  IF r.panic THEN r
             ELSE IndexByTags_remove_from(r.ix, id, tl, i + 1)

IndexByTags_insert(ix, id, rec) == IndexByTags_insert_from(ix, id, tags(rec), 1)

IndexByTags_remove(ix, id, rec) == IndexByTags_remove_from(ix, id, tags(rec), 1)

IndexByTags_update(ix, id, old, new) ==
    IF tags(old) # tags(new)
    THEN LET r == IndexByTags_remove(ix, id, old)
         IN  IF r.panic THEN r
             ELSE [panic |-> FALSE, ix |-> IndexByTags_insert(r.ix, id, new)]
    ELSE [panic |-> FALSE, ix |-> ix]

\* ---------------------------------------------------------------------
\* The Indexer trait, dispatched on the strategy the Series was opened with
\* ---------------------------------------------------------------------
\* The indexer handed to open_with_indexer (Default::default() or for_tags).
new_indexer(kind) ==
    [kind |-> kind,
     ids_by_time |-> EmptyMap,
     ids_by_tag |-> IF kind = "IndexBySelectedTags" THEN for_tags(SelectedTags)
                    ELSE EmptyMap]

Indexer_insert(ix, id, rec) ==
    CASE ix.kind = "IndexByTime" -> IndexByTime_insert(ix, id, rec)
      [] ix.kind = "IndexByAllTags" -> IndexByAllTags_insert(ix, id, rec)
      [] ix.kind = "IndexBySelectedTags" -> IndexBySelectedTags_insert(ix, id, rec)
      [] OTHER -> ix

Indexer_update(ix, id, old, new) ==
    CASE ix.kind = "IndexByTime" -> IndexByTime_update(ix, id, old, new)
      [] ix.kind = "IndexByAllTags" -> IndexByAllTags_update(ix, id, old, new)
      [] ix.kind = "IndexBySelectedTags" -> IndexBySelectedTags_update(ix, id, old, new)
      [] OTHER -> [panic |-> FALSE, ix |-> ix]

Indexer_remove(ix, id, rec) ==
    CASE ix.kind = "IndexByTime" -> IndexByTime_remove(ix, id, rec)
      [] ix.kind = "IndexByAllTags" -> IndexByAllTags_remove(ix, id, rec)
      [] ix.kind = "IndexBySelectedTags" -> IndexBySelectedTags_remove(ix, id, rec)
      [] OTHER -> [panic |-> FALSE, ix |-> ix]

\* ---------------------------------------------------------------------
\* Retrieval
\* ---------------------------------------------------------------------
\* std::ops::Bound<DateTimeTz>
Bounds ==
    {[kind |-> "Unbounded", t |-> 0]}
        \cup [kind : {"Included", "Excluded"}, t : Times]

\* impl RangeBounds<DateTimeTz>: a start bound and an end bound.
Ranges == [start : Bounds, end : Bounds]

\* RangeBounds::contains
range_contains(r, t) ==
    /\ CASE r.start.kind = "Included" -> r.start.t <= t
          [] r.start.kind = "Excluded" -> r.start.t < t
          [] OTHER -> TRUE
    /\ CASE r.end.kind = "Included" -> t <= r.end.t
          [] r.end.kind = "Excluded" -> t < r.end.t
          [] OTHER -> TRUE

\* BTreeMap::range panics on start > end, and on start = end when both bounds
\* are excluded.
btree_range_panics(r) ==
    /\ r.start.kind # "Unbounded"
    /\ r.end.kind # "Unbounded"
    /\ \/ r.start.t > r.end.t
       \/ r.start.t = r.end.t /\ r.start.kind = "Excluded" /\ r.end.kind = "Excluded"

\* The orders in which the ids of a set can come out of an iteration.
Orderings(S) ==
    {s \in [1 .. Cardinality(S) -> S] : \A i, j \in DOMAIN s : i # j => s[i] # s[j]}

\* An outcome of a retrieval: the ids in the order the iterator yields them
\* (each joined with its value in element_for_key), or a panic.
Yield(ids) == [panic |-> FALSE, out |-> ids]

Panic == [panic |-> TRUE, out |-> << >>]

\* NoIndex::retrieve_range: filter the map, then sort_unstable_by_key on the
\* timestamp alone.  The map iterates in hash order and the sort is unstable,
\* so records with equal timestamps come out in any order.
NoIndex_retrieve_range(m, r) ==
    LET hit == {id \in DOMAIN m : range_contains(r, timestamp(m[id]))}
    IN  {Yield(s) : s \in {o \in Orderings(hit) :
            \A i, j \in DOMAIN o : i < j => timestamp(m[o[i]]) <= timestamp(m[o[j]])}}

\* NoIndex::retrieve_tagged: filter the map, in hash order.
NoIndex_retrieve_tagged(m, tag) ==
    LET hit == {id \in DOMAIN m : tag \in SeqRange(tags(m[id]))}
    IN  {Yield(s) : s \in Orderings(hit)}

RECURSIVE flatten_buckets(_, _)
flatten_buckets(ids_by_key, keys) ==
    IF keys = {} THEN << >>
    ELSE LET k == CHOOSE x \in keys : \A y \in keys : x <= y
         IN  ids_by_key[k] \o flatten_buckets(ids_by_key, keys \ {k})

\* The join against element_for_key: unreachable!() when an indexed id is not
\* in the map.
join(m, ids) ==
    IF SeqRange(ids) \subseteq DOMAIN m THEN Yield(ids) ELSE Panic

\* IndexByTime::retrieve_range.  On a range BTreeMap::range rejects the call
\* panics; on a map that never held a key some versions of the standard
\* library return the empty iterator before they look at the bounds.
IndexByTime_retrieve_range(ix, m, r) ==
    IF btree_range_panics(r)
    THEN IF DOMAIN ix.ids_by_time = {} THEN {Panic, Yield(<< >>)} ELSE {Panic}
    ELSE {join(m, flatten_buckets(ix.ids_by_time,
                   {t \in DOMAIN ix.ids_by_time : range_contains(r, t)}))}

\* IndexByAllTags::retrieve_tagged
IndexByAllTags_retrieve_tagged(ix, m, tag) ==
    IF tag \in DOMAIN ix.ids_by_tag
    THEN {join(m, ix.ids_by_tag[tag])}
    ELSE {Yield(<< >>)}

\* retrieve_tagged that yields nothing for a tag without a bucket.
IndexBySelectedTags_retrieve_tagged_no_fallback(ix, m, tag) ==
    IF tag \in DOMAIN ix.ids_by_tag
    THEN {join(m, ix.ids_by_tag[tag])}
    ELSE {Yield(<< >>)}

\* IndexBySelectedTags::retrieve_tagged
IndexBySelectedTags_retrieve_tagged(ix, m, tag) ==
    IF tag \in DOMAIN ix.ids_by_tag
    THEN {join(m, ix.ids_by_tag[tag])}
    ELSE NoIndex_retrieve_tagged(m, tag)

\* IndexByTags::retrieve_tagged: nothing for a tag without a bucket, in either
\* mode.
IndexByTags_retrieve_tagged(ix, m, tag) ==
    IF tag \in DOMAIN ix.ids_by_tag
    THEN {join(m, ix.ids_by_tag[tag])}
    ELSE {Yield(<< >>)}

\* Indexer::retrieve_range: the outcomes the call can have.
Indexer_retrieve_range(ix, m, r) ==
    IF ix.kind = "IndexByTime"
    THEN IndexByTime_retrieve_range(ix, m, r)
    ELSE NoIndex_retrieve_range(m, r)

\* retrieve_tagged that yields nothing under a strategy without tag buckets.
Indexer_retrieve_tagged_buckets_only(ix, m, tag) ==
    CASE ix.kind = "IndexByAllTags" -> IndexByAllTags_retrieve_tagged(ix, m, tag)
      [] ix.kind = "IndexBySelectedTags" -> IndexBySelectedTags_retrieve_tagged(ix, m, tag)
      [] ix.kind = "NoIndex" -> NoIndex_retrieve_tagged(m, tag)
      [] OTHER -> {Yield(<< >>)}

\* Indexer::retrieve_tagged: the outcomes the call can have.
Indexer_retrieve_tagged(ix, m, tag) ==
    CASE ix.kind = "IndexByAllTags" -> IndexByAllTags_retrieve_tagged(ix, m, tag)
      [] ix.kind = "IndexBySelectedTags" -> IndexBySelectedTags_retrieve_tagged(ix, m, tag)
      [] OTHER -> NoIndex_retrieve_tagged(m, tag)

\* ---------------------------------------------------------------------
\* Criteria
\* ---------------------------------------------------------------------
\* The times a query names: the times of the records, one before and one after.
QueryTimes == {0, 1, 2, 3}

\* The tag lists a Tags criteria carries: empty, one tag, several, in either
\* order, a repeat, and a tag no record has.
TagLists == {<< >>, <<"a">>, <<"b">>, <<"a", "b">>, <<"b", "a">>, <<"a", "a">>, <<"c">>}

\* struct StartTime { time, incl }
StartTime(time, incl) == [kind |-> "StartTime", time |-> time, incl |-> incl]

\* struct EndTime { time, incl }
EndTime(time, incl) == [kind |-> "EndTime", time |-> time, incl |-> incl]

\* struct Tags { tags }
TagsOf(tl) == [kind |-> "Tags", tags |-> tl]

\* struct And { lside, rside }
And(lside, rside) == [kind |-> "And", lside |-> lside, rside |-> rside]

\* struct Or { lside, rside }
Or(lside, rside) == [kind |-> "Or", lside |-> lside, rside |-> rside]

\* exact_time with both bounds exclusive.
exact_time_exclusive(time) == And(StartTime(time, FALSE), EndTime(time, FALSE))

\* exact_time
exact_time(time) == And(StartTime(time, TRUE), EndTime(time, TRUE))

\* time_range
time_range(start, start_incl, end, end_incl) ==
    And(StartTime(start, start_incl), EndTime(end, end_incl))

\* The values of the three criteria structs without type parameters.
StartTimes == {StartTime(t, i) : t \in QueryTimes, i \in BOOLEAN}

EndTimes == {EndTime(t, i) : t \in QueryTimes, i \in BOOLEAN}

TagsCriteria == {TagsOf(tl) : tl \in TagLists}

Simple == StartTimes \cup EndTimes \cup TagsCriteria

\* The values of And<A, B> and of Or<A, B> the callers build: a start or a tag
\* list on the left, an end or a tag list on the right.
Ands == {And(l, r) : l \in StartTimes \cup TagsCriteria, r \in EndTimes \cup TagsCriteria}

Ors == {Or(l, r) : l \in StartTimes \cup TagsCriteria, r \in EndTimes \cup TagsCriteria}

\* The types with an `impl Criteria for` block: StartTime, EndTime, Tags, and
\* And<A, B> where A and B have one.  There is no such block for Or.
RECURSIVE impl_Criteria(_)
impl_Criteria(c) ==
    CASE c.kind \in {"StartTime", "EndTime", "Tags"} -> TRUE
      [] c.kind = "And" -> impl_Criteria(c.lside) /\ impl_Criteria(c.rside)
      [] OTHER -> FALSE

\* The values a caller can pass where `C: Criteria` is asked for.
Criteria == {c \in Simple \cup Ands \cup Ors : impl_Criteria(c)}

\* StartTime::apply with the inclusive flag ignored.
StartTime_apply_strict(c, record) == timestamp(record) > c.time

\* StartTime::apply
StartTime_apply(c, record) ==
    IF c.incl THEN timestamp(record) >= c.time ELSE timestamp(record) > c.time

\* EndTime::apply
EndTime_apply(c, record) ==
    IF c.incl THEN timestamp(record) <= c.time ELSE timestamp(record) < c.time

\* Tags::apply satisfied by any one of the listed tags.
Tags_apply_any(c, record) ==
    \E i \in 1 .. Len(c.tags) : c.tags[i] \in SeqRange(tags(record))

\* Tags::apply: collect the `contains` answers that are false, accept when
\* there is none.
Tags_apply(c, record) ==
    LET record_tags == tags(record)
        contained == [i \in 1 .. Len(c.tags) |-> c.tags[i] \in SeqRange(record_tags)]
        mismatched_tags == SelectSeq(contained, LAMBDA v : ~v)
    IN  Len(mismatched_tags) = 0

RECURSIVE apply(_, _)

\* And::apply
And_apply(c, record) == apply(c.lside, record) /\ apply(c.rside, record)

\* Criteria::apply, dispatched on the type of the criteria.
apply(c, record) ==
    CASE c.kind = "StartTime" -> StartTime_apply(c, record)
      [] c.kind = "EndTime" -> EndTime_apply(c, record)
      [] c.kind = "Tags" -> Tags_apply(c, record)
      [] c.kind = "And" -> And_apply(c, record)

\* ---------------------------------------------------------------------
\* The Series state machine
\* ---------------------------------------------------------------------
VARIABLES
    status,           \* "open": a Series value exists; "closed": none exists (never
                      \* opened, or dropped); "panicked": the last one was lost when
                      \* a call panicked
    file,             \* the lines of the backing file, in file order
    element_for_key,  \* Series.element_for_key
    indexer,          \* Series.indexer
    issued,           \* the ids Uuid::new_v4 has handed out so far
    fails,            \* how many log appends have failed since the Series was opened
    view_at_close,    \* Some(element_for_key as it was when the Series was dropped),
                      \* kept while every append of that session had succeeded and
                      \* no Series has been opened since; None otherwise
    last              \* the last call: its name, id argument and outcome

vars == <<status, file, element_for_key, indexer, issued, fails, view_at_close, last>>

Call(op, id, res, out) == [op |-> op, id |-> id, res |-> res, out |-> out]

RECURSIVE populate(_, _, _)
populate(ix, records, ids) ==
    IF ids = {} THEN ix
    ELSE LET id == CHOOSE x \in ids : TRUE
         IN  populate(Indexer_insert(ix, id, records[id]), records, ids \ {id})

Init ==
    /\ status = "closed"
    /\ file = << >>
    /\ element_for_key = EmptyMap
    /\ indexer = new_indexer("NoIndex")
    /\ issued = {}
    /\ fails = 0
    /\ view_at_close = None
    /\ last = Call("none", 0, "Ok", None)

\* Series::open_with_indexer
Open(kind, io_ok) ==
    /\ status # "open"
    /\ LET loaded == load_file(file)
       IN  IF ~io_ok \/ ~loaded.ok
           THEN /\ last' = Call("open", 0,
                                IF ~io_ok THEN "IOError" ELSE "JSONParseError", None)
                /\ element_for_key' = EmptyMap
                /\ indexer' = new_indexer("NoIndex")
                /\ UNCHANGED <<status, fails, view_at_close>>
           ELSE /\ status' = "open"
                /\ element_for_key' = loaded.records
                /\ indexer' = populate(new_indexer(kind), loaded.records,
                                       DOMAIN loaded.records)
                /\ last' = Call("open", 0, "Ok", None)
                /\ fails' = 0
                /\ view_at_close' = None
    /\ UNCHANGED <<file, issued>>

\* The Series value goes out of scope.
Close ==
    /\ status = "open"
    /\ status' = "closed"
    /\ view_at_close' = IF fails = 0 THEN Some(element_for_key) ELSE None
    /\ fails' = 0
    /\ element_for_key' = EmptyMap
    /\ indexer' = new_indexer("NoIndex")
    /\ last' = Call("close", 0, "Ok", None)
    /\ UNCHANGED <<file, issued>>

\* An append that rewrites the file with the new line alone.
AppendLine_rewrite(io_ok, line) ==
    IF io_ok
    THEN /\ file' = <<line>>
         /\ fails' = fails
    ELSE /\ file' = file
         /\ fails' = fails + 1

\* The append at the end of put, update and delete: the line reaches the file
\* or the call returns the write error.
AppendLine(io_ok, line) ==
    IF io_ok
    THEN /\ file' = Append(file, line)
         /\ fails' = fails
    ELSE /\ file' = file
         /\ fails' = fails + 1

\* put that takes the record out again when the append fails.
Put_roll_back(entry, id, io_ok) ==
    /\ status = "open"
    /\ id \notin issued
    /\ Len(file) < MaxLog
    /\ io_ok \/ fails < MaxFail
    /\ issued' = issued \cup {id}
    /\ IF id \notin DOMAIN element_for_key
       THEN /\ element_for_key' = IF io_ok THEN MapInsert(element_for_key, id, entry)
                                  ELSE element_for_key
            /\ indexer' = IF io_ok THEN Indexer_insert(indexer, id, entry) ELSE indexer
            /\ AppendLine(io_ok, write_line(id, Some(entry)))
            /\ last' = Call("put", id, IF io_ok THEN "Ok" ELSE "IOError", None)
       ELSE /\ last' = Call("put", id, "AlreadyExists", None)
            /\ UNCHANGED <<element_for_key, indexer, file, fails>>
    /\ UNCHANGED <<status, view_at_close>>

\* Series::put.  Record::new draws the id: a v4 uuid, never one drawn before.
Put(entry, id, io_ok) ==
    /\ status = "open"
    /\ id \notin issued
    /\ Len(file) < MaxLog
    /\ io_ok \/ fails < MaxFail
    /\ issued' = issued \cup {id}
    /\ IF id \notin DOMAIN element_for_key
       THEN /\ element_for_key' = MapInsert(element_for_key, id, entry)
            /\ indexer' = Indexer_insert(indexer, id, entry)
            /\ AppendLine(io_ok, write_line(id, Some(entry)))
            /\ last' = Call("put", id, IF io_ok THEN "Ok" ELSE "IOError", None)
       ELSE /\ last' = Call("put", id, "AlreadyExists", None)
            /\ UNCHANGED <<element_for_key, indexer, file, fails>>
    /\ UNCHANGED <<status, view_at_close>>

\* The Entry::Vacant arm as a silent no-op.
UpdateMissing_silent(id) ==
    /\ last' = Call("update", id, "Ok", None)
    /\ UNCHANGED <<status, element_for_key, indexer, file, fails>>

\* Series::update, Entry::Vacant arm.
UpdateMissing(id) ==
    /\ last' = Call("update", id, "NotFound", None)
    /\ UNCHANGED <<status, element_for_key, indexer, file, fails>>

\* update that writes no line when the new data is the stored data.
Update_skip_unchanged(id, data, io_ok) ==
    /\ status = "open"
    /\ Len(file) < MaxLog
    /\ io_ok \/ fails < MaxFail
    /\ IF id \notin DOMAIN element_for_key
       THEN UpdateMissing(id)
       ELSE /\ element_for_key' = [element_for_key EXCEPT ![id] = data]
            /\ IF element_for_key[id] = data
               THEN UNCHANGED <<file, fails>>
               ELSE AppendLine(io_ok, write_line(id, Some(data)))
            /\ last' = Call("update", id, IF io_ok THEN "Ok" ELSE "IOError", None)
            /\ UNCHANGED <<status, indexer>>
    /\ UNCHANGED <<issued, view_at_close>>

\* update that appends the line and leaves the map entry as it was.
Update_keep_old(id, data, io_ok) ==
    /\ status = "open"
    /\ Len(file) < MaxLog
    /\ io_ok \/ fails < MaxFail
    /\ IF id \notin DOMAIN element_for_key
       THEN UpdateMissing(id)
       ELSE /\ AppendLine(io_ok, write_line(id, Some(data)))
            /\ last' = Call("update", id, IF io_ok THEN "Ok" ELSE "IOError", None)
            /\ UNCHANGED <<status, element_for_key, indexer>>
    /\ UNCHANGED <<issued, view_at_close>>

\* Series::update: the value handed to Indexer::update as `old` is read from
\* the entry after the entry has been overwritten.
Update(id, data, io_ok) ==
    /\ status = "open"
    /\ Len(file) < MaxLog
    /\ io_ok \/ fails < MaxFail
    /\ IF id \notin DOMAIN element_for_key
       THEN UpdateMissing(id)
       ELSE LET inserted == [element_for_key EXCEPT ![id] = data]
                r == Indexer_update(indexer, id, inserted[id], data)
            IN  /\ element_for_key' = inserted
                /\ indexer' = r.ix
                /\ IF r.panic
                   THEN /\ status' = "panicked"
                        /\ last' = Call("update", id, "panic", None)
                        /\ UNCHANGED <<file, fails>>
                   ELSE /\ status' = status
                        /\ AppendLine(io_ok, write_line(id, Some(data)))
                        /\ last' = Call("update", id,
                                        IF io_ok THEN "Ok" ELSE "IOError", None)
    /\ UNCHANGED <<issued, view_at_close>>

\* The else arm writing the tombstone all the same.
DeleteMissing_tombstone(id) ==
    /\ last' = Call("delete", id, "Ok", None)
    /\ file' = Append(file, write_line(id, None))
    /\ UNCHANGED <<status, element_for_key, indexer, fails>>

\* Series::delete, the else arm: remove() found nothing.
DeleteMissing(id) ==
    /\ last' = Call("delete", id, "NotFound", None)
    /\ UNCHANGED <<status, element_for_key, indexer, file, fails>>

\* delete that leaves the index as it is.
Delete_keep_index(id, io_ok) ==
    /\ status = "open"
    /\ Len(file) < MaxLog
    /\ io_ok \/ fails < MaxFail
    /\ IF id \in DOMAIN element_for_key
       THEN /\ element_for_key' = MapRemove(element_for_key, id)
            /\ indexer' = indexer
            /\ status' = status
            /\ AppendLine(io_ok, write_line(id, None))
            /\ last' = Call("delete", id, IF io_ok THEN "Ok" ELSE "IOError", None)
       ELSE DeleteMissing(id)
    /\ UNCHANGED <<issued, view_at_close>>

\* Series::delete
Delete(id, io_ok) ==
    /\ status = "open"
    /\ Len(file) < MaxLog
    /\ io_ok \/ fails < MaxFail
    /\ IF id \in DOMAIN element_for_key
       THEN LET prev_val == element_for_key[id]
                r == Indexer_remove(indexer, id, prev_val)
            IN  /\ element_for_key' = MapRemove(element_for_key, id)
                /\ indexer' = r.ix
                /\ IF r.panic
                   THEN /\ status' = "panicked"
                        /\ last' = Call("delete", id, "panic", None)
                        /\ UNCHANGED <<file, fails>>
                   ELSE /\ status' = status
                        /\ AppendLine(io_ok, write_line(id, None))
                        /\ last' = Call("delete", id,
                                        IF io_ok THEN "Ok" ELSE "IOError", None)
       ELSE DeleteMissing(id)
    /\ UNCHANGED <<issued, view_at_close>>

\* get failing on an id that is not live.
Series_get_not_found(m, id) ==
    [res |-> IF id \in DOMAIN m THEN "Ok" ELSE "NotFound",
     out |-> IF id \in DOMAIN m THEN Some([id |-> id, data |-> m[id]]) ELSE None]

\* Series::get: Ok(None) or Ok(Some(Record{id, data})).
Series_get(m, id) ==
    [res |-> "Ok",
     out |-> IF id \in DOMAIN m THEN Some([id |-> id, data |-> m[id]]) ELSE None]

\* get that takes the record out of the map.
Get_take(id) ==
    /\ status = "open"
    /\ last' = Call("get", id, Series_get(element_for_key, id).res,
                    Series_get(element_for_key, id).out)
    /\ element_for_key' = MapRemove(element_for_key, id)
    /\ UNCHANGED <<status, file, indexer, issued, fails, view_at_close>>

Get(id) ==
    /\ status = "open"
    /\ last' = Call("get", id, Series_get(element_for_key, id).res,
                    Series_get(element_for_key, id).out)
    /\ UNCHANGED <<status, file, element_for_key, indexer, issued, fails,
                   view_at_close>>

\* Something other than the Series leaves a line in the file that does not
\* decode (a torn write, an edit by hand).
Corrupt(pos) ==
    /\ status # "open"
    /\ Cardinality({i \in 1 .. Len(file) : file[i].kind = "garbage"}) < MaxBad
    /\ file' = vec_insert(file, pos, GarbageLine)
    /\ last' = Call("corrupt", 0, "Ok", None)
    /\ UNCHANGED <<status, element_for_key, indexer, issued, fails,
                   view_at_close>>

\* Series::search_range
search_range(r) == Indexer_retrieve_range(indexer, element_for_key, r)

\* series.indexer.retrieve_tagged(&series.element_for_key, tag)
retrieve_tagged(tag) == Indexer_retrieve_tagged(indexer, element_for_key, tag)

Next ==
    \/ \E kind \in Strategies, io_ok \in BOOLEAN : Open(kind, io_ok)
    \/ Close
    \/ \E entry \in Values, id \in Ids, io_ok \in BOOLEAN : Put(entry, id, io_ok)
    \/ \E id \in Ids, data \in Values, io_ok \in BOOLEAN : Update(id, data, io_ok)
    \/ \E id \in Ids, io_ok \in BOOLEAN : Delete(id, io_ok)
    \/ \E pos \in 1 .. Len(file) + 1 : Corrupt(pos)

\* The mutating calls, open and drop.
Spec == Init /\ [][Next]_vars

NextRead ==
    \/ Next
    \/ \E id \in Ids : Get(id)

\* The same with the read calls.
SpecRead == Init /\ [][NextRead]_vars

\* struct Record { id, data }
Record(id, data) == [id |-> id, data |-> data]

\* search with the filter left out.
Series_search_unfiltered(m, c) ==
    {[i \in 1 .. Len(s) |-> Record(s[i], m[s[i]])] : s \in Orderings(DOMAIN m)}

\* Series::search: the records of the map the criteria accepts, in the order
\* the hash map iterates.
Series_search(m, c) ==
    LET hit == {id \in DOMAIN m : apply(c, m[id])}
    IN  {[i \in 1 .. Len(s) |-> Record(s[i], m[s[i]])] : s \in Orderings(hit)}

\* The criteria the callers search with.
Queries ==
    {exact_time(1),
     TagsOf(<<"a">>),
     And(TagsOf(<<"a">>), StartTime(1, FALSE))}

Search(c) ==
    /\ status = "open"
    /\ \E out \in Series_search(element_for_key, c) :
           last' = Call("search", c, "Ok", out)
    /\ UNCHANGED <<status, file, element_for_key, indexer, issued, fails,
                   view_at_close>>

NextSearch ==
    \/ Next
    \/ \E c \in Queries : Search(c)

\* The mutating calls, open, drop and search.
SpecSearch == Init /\ [][NextSearch]_vars

\* A caller applies a criteria to a record.
Apply(c, record) ==
    /\ last' = Call("apply", [criteria |-> c, record |-> record], "Ok",
                    apply(c, record))
    /\ UNCHANGED <<status, file, element_for_key, indexer, issued, fails,
                   view_at_close>>

NextCriteria == \E c \in Criteria, record \in Values : Apply(c, record)

\* The criteria applied to records, apart from any Series.
SpecCriteria == Init /\ [][NextCriteria]_vars

\* The comparators the callers sort with: by timestamp, as the tests do
\* (|l, r| l.timestamp().cmp(&r.timestamp())), and by id, descending.
Comparators == {"timestamp", "id_desc"}

\* The caller's closure: Ordering::Less, Equal or Greater for two records.
compare(cmp, l, r) ==
    LET a == IF cmp = "timestamp" THEN timestamp(l.data) ELSE r.id
        b == IF cmp = "timestamp" THEN timestamp(r.data) ELSE l.id
    IN  IF a < b THEN "Less" ELSE IF a = b THEN "Equal" ELSE "Greater"

\* slice::sort_by: a stable sort.  Each record goes behind the records before
\* it that do not compare Greater.
RECURSIVE sort_by(_, _)
sort_by(records, cmp) ==
    IF Len(records) <= 1 THEN records
    ELSE LET sorted == sort_by(SubSeq(records, 1, Len(records) - 1), cmp)
             x == records[Len(records)]
             k == Cardinality({i \in 1 .. Len(sorted) : compare(cmp, sorted[i], x) # "Greater"})
         IN  SubSeq(sorted, 1, k) \o <<x>> \o SubSeq(sorted, k + 1, Len(sorted))

\* search_sorted without the sort.
Series_search_sorted_as_found(m, c, cmp) == Series_search(m, c)

\* Series::search_sorted: search, then sort_by(compare).
Series_search_sorted(m, c, cmp) == {sort_by(records, cmp) : records \in Series_search(m, c)}

\* The criteria the callers give search_sorted.
SortedQueries == {time_range(1, TRUE, 2, TRUE)}

SearchSorted(c, cmp) ==
    /\ status = "open"
    /\ \E out \in Series_search_sorted(element_for_key, c, cmp) :
           last' = Call("search_sorted", [criteria |-> c, compare |-> cmp], "Ok", out)
    /\ UNCHANGED <<status, file, element_for_key, indexer, issued, fails,
                   view_at_close>>

NextSorted ==
    \/ Next
    \/ \E c \in SortedQueries, cmp \in Comparators : SearchSorted(c, cmp)

\* The mutating calls, open, drop and search_sorted.
SpecSorted == Init /\ [][NextSorted]_vars

\* series.indexer.retrieve_tagged(&series.element_for_key, tag), the iterator
\* collected.  A panic in the join takes the Series with it.
RetrieveTagged(tag) ==
    /\ status = "open"
    /\ \E o \in retrieve_tagged(tag) :
           IF o.panic
           THEN /\ status' = "panicked"
                /\ last' = Call("retrieve_tagged", tag, "panic", None)
           ELSE /\ status' = status
                /\ last' = Call("retrieve_tagged", tag, "Ok",
                                [i \in 1 .. Len(o.out) |->
                                     Record(o.out[i], element_for_key[o.out[i]])])
    /\ UNCHANGED <<file, element_for_key, indexer, issued, fails, view_at_close>>

NextTagged ==
    \/ Next
    \/ \E tag \in Tags : RetrieveTagged(tag)

\* The mutating calls, open, drop and retrieve_tagged.
SpecTagged == Init /\ [][NextTagged]_vars

\* The ranges search_range is called with: everything, a half-open interval,
\* an interval whose start is after its end, and an interval that excludes
\* its one instant from both sides.
RangeQueries ==
    {[start |-> [kind |-> "Unbounded", t |-> 0], end |-> [kind |-> "Unbounded", t |-> 0]],
     [start |-> [kind |-> "Excluded", t |-> 1], end |-> [kind |-> "Included", t |-> 2]],
     [start |-> [kind |-> "Included", t |-> 2], end |-> [kind |-> "Included", t |-> 1]],
     [start |-> [kind |-> "Excluded", t |-> 1], end |-> [kind |-> "Excluded", t |-> 1]]}

\* Series::search_range, the iterator collected.  A panic takes the Series
\* with it.
SearchRange(r) ==
    /\ status = "open"
    /\ \E o \in search_range(r) :
           IF o.panic
           THEN /\ status' = "panicked"
                /\ last' = Call("search_range", r, "panic", None)
           ELSE /\ status' = status
                /\ last' = Call("search_range", r, "Ok",
                                [i \in 1 .. Len(o.out) |->
                                     Record(o.out[i], element_for_key[o.out[i]])])
    /\ UNCHANGED <<file, element_for_key, indexer, issued, fails, view_at_close>>

NextRetrieve ==
    \/ Next
    \/ \E tag \in Tags : RetrieveTagged(tag)
    \/ \E r \in RangeQueries : SearchRange(r)

\* The mutating calls, open, drop, retrieve_tagged and search_range.
SpecRetrieve == Init /\ [][NextRetrieve]_vars

NextPutDelete ==
    \/ \E kind \in Strategies, io_ok \in BOOLEAN : Open(kind, io_ok)
    \/ Close
    \/ \E entry \in Values, id \in Ids, io_ok \in BOOLEAN : Put(entry, id, io_ok)
    \/ \E id \in Ids, io_ok \in BOOLEAN : Delete(id, io_ok)
    \/ \E pos \in 1 .. Len(file) + 1 : Corrupt(pos)
    \/ \E tag \in Tags : RetrieveTagged(tag)
    \/ \E r \in RangeQueries : SearchRange(r)

\* The same without update: a Series that is only put to and deleted from.
SpecPutDelete == Init /\ [][NextPutDelete]_vars

\* Series::records: every record of the map, in the order the hash map
\* iterates.
Series_records(m) ==
    {[i \in 1 .. Len(s) |-> Record(s[i], m[s[i]])] : s \in Orderings(DOMAIN m)}

\* Series::records, the iterator collected (what all_records returns).
Records ==
    /\ status = "open"
    /\ \E out \in Series_records(element_for_key) :
           last' = Call("records", 0, "Ok", out)
    /\ UNCHANGED <<status, file, element_for_key, indexer, issued, fails,
                   view_at_close>>

NextReads ==
    \/ \E kind \in Strategies : Open(kind, TRUE)
    \/ Close
    \/ \E entry \in Values, id \in Ids : Put(entry, id, TRUE)
    \/ \E id \in Ids, data \in Values : Update(id, data, TRUE)
    \/ \E id \in Ids : Delete(id, TRUE)
    \/ \E id \in Ids : Get(id)
    \/ Records
    \/ \E c \in Queries : Search(c)
    \/ \E c \in SortedQueries, cmp \in Comparators : SearchSorted(c, cmp)
    \/ \E r \in RangeQueries : SearchRange(r)
    \/ \E tag \in Tags : RetrieveTagged(tag)

\* Every read call, on a Series whose file takes every append.
SpecReads == Init /\ [][NextReads]_vars

\* The records without a repeated tag.
PlainValues == {v \in Values : Len(tags(v)) = Cardinality(SeqRange(tags(v)))}

\* An Indexer used on its own by a caller that keeps to the preconditions of
\* the trait: element_for_key holds the records the caller has inserted and
\* not removed, and the caller hands them back as `old` and as the record to
\* remove.
IndexerNew(kind) ==
    /\ indexer' = new_indexer(kind)
    /\ element_for_key' = EmptyMap
    /\ last' = Call("Indexer::new", 0, "Ok", None)
    /\ UNCHANGED <<status, file, issued, fails, view_at_close>>

IndexerInsert(id, rec) ==
    /\ id \notin DOMAIN element_for_key
    /\ indexer' = Indexer_insert(indexer, id, rec)
    /\ element_for_key' = MapInsert(element_for_key, id, rec)
    /\ last' = Call("Indexer::insert", id, "Ok", None)
    /\ UNCHANGED <<status, file, issued, fails, view_at_close>>

IndexerUpdate(id, new) ==
    /\ id \in DOMAIN element_for_key
    /\ LET r == Indexer_update(indexer, id, element_for_key[id], new)
       IN  /\ indexer' = r.ix
           /\ last' = Call("Indexer::update", id, IF r.panic THEN "panic" ELSE "Ok", None)
    /\ element_for_key' = [element_for_key EXCEPT ![id] = new]
    /\ UNCHANGED <<status, file, issued, fails, view_at_close>>

IndexerRemove(id) ==
    /\ id \in DOMAIN element_for_key
    /\ LET r == Indexer_remove(indexer, id, element_for_key[id])
       IN  /\ indexer' = r.ix
           /\ last' = Call("Indexer::remove", id, IF r.panic THEN "panic" ELSE "Ok", None)
    /\ element_for_key' = MapRemove(element_for_key, id)
    /\ UNCHANGED <<status, file, issued, fails, view_at_close>>

NextIndexer ==
    \/ \E kind \in Strategies : IndexerNew(kind)
    \/ \E id \in Ids, rec \in PlainValues : IndexerInsert(id, rec)
    \/ \E id \in Ids, new \in PlainValues : IndexerUpdate(id, new)
    \/ \E id \in Ids : IndexerRemove(id)

\* The Indexer implementations called as their trait documents.
SpecIndexer == Init /\ [][NextIndexer]_vars

\* An IndexByTags used on its own, in either mode, by a caller that keeps to
\* the preconditions of the trait (element_for_key holds the records inserted
\* and not removed).
ByTagsNew(fixed) ==
    /\ indexer' = IF fixed THEN IndexByTags_for_tags(SelectedTags) ELSE IndexByTags_default
    /\ element_for_key' = EmptyMap
    /\ last' = Call("IndexByTags::new", 0, "Ok", None)
    /\ UNCHANGED <<status, file, issued, fails, view_at_close>>

ByTagsInsert(id, rec) ==
    /\ indexer.kind = "IndexByTags"
    /\ last.res # "panic"
    /\ id \notin DOMAIN element_for_key
    /\ indexer' = IndexByTags_insert(indexer, id, rec)
    /\ element_for_key' = MapInsert(element_for_key, id, rec)
    /\ last' = Call("IndexByTags::insert", id, "Ok", None)
    /\ UNCHANGED <<status, file, issued, fails, view_at_close>>

ByTagsUpdate(id, new) ==
    /\ indexer.kind = "IndexByTags"
    /\ last.res # "panic"
    /\ id \in DOMAIN element_for_key
    /\ LET r == IndexByTags_update(indexer, id, element_for_key[id], new)
       IN  /\ indexer' = r.ix
           /\ last' = Call("IndexByTags::update", id,
                           IF r.panic THEN "panic" ELSE "Ok", None)
    /\ element_for_key' = [element_for_key EXCEPT ![id] = new]
    /\ UNCHANGED <<status, file, issued, fails, view_at_close>>

ByTagsRemove(id) ==
    /\ indexer.kind = "IndexByTags"
    /\ last.res # "panic"
    /\ id \in DOMAIN element_for_key
    /\ LET r == IndexByTags_remove(indexer, id, element_for_key[id])
       IN  /\ indexer' = r.ix
           /\ last' = Call("IndexByTags::remove", id,
                           IF r.panic THEN "panic" ELSE "Ok", None)
    /\ element_for_key' = MapRemove(element_for_key, id)
    /\ UNCHANGED <<status, file, issued, fails, view_at_close>>

ByTagsRetrieveTagged(tag) ==
    /\ indexer.kind = "IndexByTags"
    /\ last.res # "panic"
    /\ \E o \in IndexByTags_retrieve_tagged(indexer, element_for_key, tag) :
           last' = Call("IndexByTags::retrieve_tagged", tag,
                        IF o.panic THEN "panic" ELSE "Ok", o.out)
    /\ UNCHANGED <<status, file, element_for_key, indexer, issued, fails,
                   view_at_close>>

NextByTags ==
    \/ \E fixed \in BOOLEAN : ByTagsNew(fixed)
    \/ \E id \in Ids, rec \in Values : ByTagsInsert(id, rec)
    \/ \E id \in Ids, new \in Values : ByTagsUpdate(id, new)
    \/ \E id \in Ids : ByTagsRemove(id)
    \/ \E tag \in Tags : ByTagsRetrieveTagged(tag)

\* IndexByTags called as the trait documents.
SpecByTags == Init /\ [][NextByTags]_vars

\* ---------------------------------------------------------------------
\* Properties
\* ---------------------------------------------------------------------
IsEntry(i) == file[i].kind = "entry"

HasGarbage == \E i \in 1 .. Len(file) : file[i].kind = "garbage"

\* The view a log stands for: an id is live when its last line carries data,
\* and its value is the data of that line.
FoldView(lines) ==
    LET lastOf(id) == CHOOSE i \in 1 .. Len(lines) :
                          /\ lines[i].id = id
                          /\ \A j \in (i + 1) .. Len(lines) : lines[j].id # id
        live == {id \in Ids : /\ \E i \in 1 .. Len(lines) : lines[i].id = id
                              /\ lines[lastOf(id)].data # None}
    IN  [id \in live |-> lines[lastOf(id)].data[1]]

\* C1: a Series dropped after a session in which every append succeeded, then
\* opened again on the same file, has the primary map it had when dropped.
C1_RoundTrip ==
    [][(status = "closed" /\ view_at_close # None /\ status' = "open")
           => element_for_key' = view_at_close[1]]_vars

\* A reopened Series whose file holds a tombstone and a surviving record.
C1_Witness ==
    /\ status = "open"
    /\ last.op = "open"
    /\ element_for_key # EmptyMap
    /\ \E i \in 1 .. Len(file) : file[i].data = None

ProperRanges == {r \in Ranges : ~btree_range_panics(r)}

\* Full scan of the primary map on the timestamp.
ScanRange(r) == {id \in DOMAIN element_for_key : range_contains(r, timestamp(element_for_key[id]))}

\* Full scan of the primary map on a tag.
ScanTagged(tag) == {id \in DOMAIN element_for_key : tag \in SeqRange(tags(element_for_key[id]))}

\* C3: under IndexByTime, search_range returns the id set of the full scan on
\* the timestamp, after any puts, updates and deletes (all of them written to
\* the log).
C3_TimeIndexAgreesWithScan ==
    (status = "open" /\ fails = 0 /\ indexer.kind = "IndexByTime")
        => \A r \in ProperRanges : \A o \in search_range(r) :
               ~o.panic /\ SeqRange(o.out) = ScanRange(r)

\* C4: under IndexByAllTags, retrieve_tagged returns the id set of the full
\* scan on the tag, for every tag, after any puts, updates and deletes (all of
\* them written to the log).
C4_AllTagsIndexAgreesWithScan ==
    (status = "open" /\ fails = 0 /\ indexer.kind = "IndexByAllTags")
        => \A tag \in Tags : \A o \in retrieve_tagged(tag) :
               ~o.panic /\ SeqRange(o.out) = ScanTagged(tag)

\* C5: under IndexBySelectedTags, retrieve_tagged of a tracked tag returns
\* exactly the live records that carry the tag, after any puts, updates and
\* deletes (all of them written to the log).
C5_SelectedTagsIndexAgreesWithScan ==
    (status = "open" /\ fails = 0 /\ indexer.kind = "IndexBySelectedTags")
        => \A tag \in SeqRange(SelectedTags) : \A o \in retrieve_tagged(tag) :
               ~o.panic /\ SeqRange(o.out) = ScanTagged(tag)

\* C6, for the IndexByTime strategy: search_range yields its records in
\* ascending timestamp order, equal timestamps in ascending id order, after
\* any puts, updates and deletes (all of them written to the log).
C6_RangeOrderedByTimeThenId ==
    (status = "open" /\ fails = 0 /\ indexer.kind = "IndexByTime")
        => \A r \in ProperRanges : \A o \in search_range(r) :
               ~o.panic =>
                   \A i, j \in 1 .. Len(o.out) : i < j =>
                       LET a == timestamp(element_for_key[o.out[i]])
                           b == timestamp(element_for_key[o.out[j]])
                       IN  a < b \/ (a = b /\ o.out[i] < o.out[j])

\* C7: update of an id that is not in the primary map returns the not-found
\* error and changes neither the map, the index nor the file.
C7_UpdateMissingIsNotFound ==
    [][(status = "open" /\ last'.op = "update" /\ last'.id \notin DOMAIN element_for_key)
           => (last'.res = "NotFound" /\ UNCHANGED <<element_for_key, indexer, file>>)]_vars

\* An update refused on a Series that holds records.
C7_Witness ==
    /\ status = "open"
    /\ last.op = "update"
    /\ last.res = "NotFound"
    /\ element_for_key # EmptyMap

\* C8: delete of an id that is not in the primary map returns the not-found
\* error and changes neither the map, the index nor the file.
C8_DeleteMissingIsNotFound ==
    [][(status = "open" /\ last'.op = "delete" /\ last'.id \notin DOMAIN element_for_key)
           => (last'.res = "NotFound" /\ UNCHANGED <<element_for_key, indexer, file>>)]_vars

\* A second delete of an id, refused: the file holds exactly one tombstone of it.
C8_Witness ==
    /\ status = "open"
    /\ last.op = "delete"
    /\ last.res = "NotFound"
    /\ Cardinality({i \in 1 .. Len(file) : file[i].id = last.id /\ file[i].data = None}) = 1

\* C9: get returns Ok: None for an id that is not live, the record with the
\* stored value for one that is.
C9_GetIsInfallible ==
    (status = "open" /\ last.op = "get")
        => /\ last.res = "Ok"
           /\ last.id \notin DOMAIN element_for_key => last.out = None
           /\ last.id \in DOMAIN element_for_key
                  => last.out = Some([id |-> last.id, data |-> element_for_key[last.id]])

\* A get of an id that was put and then deleted, answered None.
C9_WitnessMissing ==
    /\ status = "open"
    /\ last.op = "get"
    /\ last.out = None
    /\ \E i \in 1 .. Len(file) : file[i].id = last.id /\ file[i].data = None

\* C10: when a line of the file does not decode (and the file could be read),
\* open returns the deserialization error and no Series exists afterwards.
C10_OpenIsAllOrNothing ==
    [][(last'.op = "open" /\ last'.res # "IOError" /\ HasGarbage)
           => (last'.res = "JSONParseError" /\ status' # "open"
               /\ element_for_key' = EmptyMap)]_vars

\* An open refused on a file with valid lines before and after the bad one.
C10_Witness ==
    /\ last.op = "open"
    /\ last.res = "JSONParseError"
    /\ \E i, j, k \in 1 .. Len(file) :
           i < j /\ j < k /\ IsEntry(i) /\ ~IsEntry(j) /\ IsEntry(k)

\* The lines of the file that belong to an id, in file order.
LinesOf(lines, id) == SelectSeq(lines, LAMBDA l : l.id = id)

\* C11: open appends nothing to the file, and the primary map of a Series
\* that opened is the fold of the file's lines, whatever the indexer and
\* whatever happened before: two opens of an unchanged file give the same map.
C11_IdempotentLoad ==
    [][last'.op = "open"
           => /\ file' = file
              /\ status' = "open" => element_for_key' = FoldView(file)]_vars

\* A Series opened on a file whose lines name one id several times.
C11_Witness ==
    /\ status = "open"
    /\ last.op = "open"
    /\ element_for_key # EmptyMap
    /\ \E id \in Ids : Len(LinesOf(file, id)) >= 2

\* C12: a put, update or delete that returns Ok appends exactly one line and
\* leaves the earlier lines as they were; one that returns an error or panics,
\* and the drop of the Series, leave the file as it was.
C12_LogAppendOnly ==
    [][/\ last'.op \in {"put", "update", "delete"}
           => IF last'.res = "Ok"
              THEN /\ Len(file') = Len(file) + 1
                   /\ SubSeq(file', 1, Len(file)) = file
              ELSE file' = file
       /\ last'.op = "close" => file' = file]_vars

\* Three successful calls and a failed one: three lines.
C12_Witness ==
    /\ status = "open"
    /\ last.op \in {"update", "delete"}
    /\ last.res = "Ok"
    /\ fails = 1
    /\ Len(file) = 3

\* C13: delete of a live id whose only line in the log is the one its put
\* wrote (every append of the session having succeeded) returns Ok; get of
\* the id then returns None, the other live records are as before, the log
\* holds for the id its data line followed by one tombstone, and a replay of
\* the log gives the earlier replay without the id.
C13_PutThenDelete ==
    [][\A id \in Ids :
           (/\ status = "open"
            /\ fails = 0
            /\ last'.op = "delete"
            /\ last'.id = id
            /\ last'.res # "IOError"
            /\ id \in DOMAIN element_for_key
            /\ Len(LinesOf(file, id)) = 1)
           => /\ last'.res = "Ok"
              /\ Series_get(element_for_key', id) = [res |-> "Ok", out |-> None]
              /\ element_for_key' = MapRemove(element_for_key, id)
              /\ LinesOf(file', id)
                     = <<write_line(id, Some(element_for_key[id])), write_line(id, None)>>
              /\ load_file(file').ok
              /\ id \notin DOMAIN load_file(file').records
              /\ load_file(file').records = MapRemove(load_file(file).records, id)]_vars

\* A record put and deleted while another record stays live.
C13_Witness ==
    /\ status = "open"
    /\ fails = 0
    /\ last.op = "delete"
    /\ last.res = "Ok"
    /\ Len(LinesOf(file, last.id)) = 2
    /\ element_for_key # EmptyMap

\* C14: a put of v that returns Ok(id): the id was not live before, get(id)
\* returns the record {id, v}, there is one more live record, and every id
\* that was live keeps its value.
C14_PutAddsOneRecord ==
    [][\A entry \in Values, id \in Ids :
           (Put(entry, id, TRUE) /\ last'.res = "Ok")
           => /\ id \notin DOMAIN element_for_key
              /\ Series_get(element_for_key', id)
                     = [res |-> "Ok", out |-> Some(Record(id, entry))]
              /\ Cardinality(DOMAIN element_for_key')
                     = Cardinality(DOMAIN element_for_key) + 1
              /\ \A k \in DOMAIN element_for_key :
                     /\ k \in DOMAIN element_for_key'
                     /\ element_for_key'[k] = element_for_key[k]]_vars

\* A successful put into a Series that already holds a record.
C14_Witness ==
    /\ status = "open"
    /\ last.op = "put"
    /\ last.res = "Ok"
    /\ Cardinality(DOMAIN element_for_key) = 2

\* C15: an update of a live id that returns Ok: get of the id returns the
\* record {id, new data}, the same ids are live, and every other id keeps its
\* value.
C15_UpdateReplacesOneValue ==
    [][\A id \in Ids, data \in Values :
           (/\ Update(id, data, TRUE)
            /\ id \in DOMAIN element_for_key
            /\ last'.res = "Ok")
           => /\ Series_get(element_for_key', id)
                     = [res |-> "Ok", out |-> Some(Record(id, data))]
              /\ DOMAIN element_for_key' = DOMAIN element_for_key
              /\ \A k \in DOMAIN element_for_key \ {id} :
                     element_for_key'[k] = element_for_key[k]]_vars

\* A successful update that changed the value of one of two live records.
C15_Witness ==
    /\ status = "open"
    /\ fails = 0
    /\ last.op = "update"
    /\ last.res = "Ok"
    /\ Cardinality(DOMAIN element_for_key) = 2
    /\ \E i \in 1 .. Len(file) :
           /\ file[i].id = last.id
           /\ file[i].data # None
           /\ file[i].data # Some(element_for_key[last.id])

\* C16: right after open, under every indexer strategy, search_range and
\* retrieve_tagged return the ids of the full scan of the replayed map, each
\* of them once.
C16_IndexConsistentAfterOpen ==
    (status = "open" /\ last.op = "open")
        => /\ \A r \in ProperRanges : \A o \in search_range(r) :
                  /\ ~o.panic
                  /\ SeqRange(o.out) = ScanRange(r)
                  /\ Len(o.out) = Cardinality(ScanRange(r))
           /\ \A tag \in Tags : \A o \in retrieve_tagged(tag) :
                  /\ ~o.panic
                  /\ SeqRange(o.out) = ScanTagged(tag)
                  /\ Len(o.out) = Cardinality(ScanTagged(tag))

\* C17: time_range(a, a_incl, b, b_incl) accepts a record dated t exactly
\* when t is after a, or is a with a_incl set, and t is before b, or is b
\* with b_incl set: each flag decides its own bound and nothing else.
C17_RangeInclusivity ==
    \A a, b \in QueryTimes, a_incl, b_incl \in BOOLEAN :
        (last.op = "apply" /\ last.id.criteria = time_range(a, a_incl, b, b_incl))
            => LET t == timestamp(last.id.record)
               IN  last.out = (/\ t > a \/ (t = a /\ a_incl)
                               /\ t < b \/ (t = b /\ b_incl))

\* time_range(1, true, 2, false) applied to a record dated 2: rejected.
C17_Witness ==
    /\ last.op = "apply"
    /\ last.id.criteria = time_range(1, TRUE, 2, FALSE)
    /\ timestamp(last.id.record) = 2
    /\ last.out = FALSE

\* C18 as stated: every Or value of two criteria is a criteria, and applying
\* it to the record a caller holds gives the disjunction of what its two
\* sides give.
C18_OrIsCriteria ==
    last.op = "apply"
        => \A c \in Ors :
               /\ impl_Criteria(c)
               /\ apply(c, last.id.record)
                      <=> (apply(c.lside, last.id.record) \/ apply(c.rside, last.id.record))

\* C19: Tags{tags} accepts a record exactly when each listed tag is among the
\* record's tags; tags the record has besides do not matter, and the empty
\* list accepts every record.
C19_TagsApply ==
    (last.op = "apply" /\ last.id.criteria.kind = "Tags")
        => LET listed == last.id.criteria.tags
               carried == SeqRange(tags(last.id.record))
           IN  /\ last.out = (\A i \in 1 .. Len(listed) : listed[i] \in carried)
               /\ listed = << >> => last.out = TRUE

\* Tags{["a"]} applied to a record tagged a and b: accepted.
C19_Witness ==
    /\ last.op = "apply"
    /\ last.id.criteria = TagsOf(<<"a">>)
    /\ tags(last.id.record) = <<"a", "b">>
    /\ last.out = TRUE

\* What search(c) has to return: records of the primary map with their
\* stored value, each accepted by c, and each accepted live id exactly once.
IsSearchResult(out, c) ==
    /\ \A i \in 1 .. Len(out) :
           /\ out[i].id \in DOMAIN element_for_key
           /\ out[i].data = element_for_key[out[i].id]
           /\ apply(c, out[i].data)
    /\ \A id \in DOMAIN element_for_key :
           apply(c, element_for_key[id])
               => Cardinality({i \in 1 .. Len(out) : out[i].id = id}) = 1
    /\ \A i, j \in 1 .. Len(out) : out[i].id = out[j].id => i = j

\* C20: whatever puts, updates and deletes came before, a search returns
\* exactly the live records its criteria accepts, each once, with the id and
\* the value the primary map holds.
C20_SearchReturnsMatches ==
    (status = "open" /\ last.op = "search") => IsSearchResult(last.out, last.id)

\* A search that returned one of two live records, the one an update wrote.
C20_Witness ==
    /\ status = "open"
    /\ last.op = "search"
    /\ Len(last.out) = 1
    /\ Cardinality(DOMAIN element_for_key) = 2
    /\ Len(LinesOf(file, last.out[1].id)) = 2

\* C21: search_sorted returns the records search returns for the criteria,
\* each once, in an order in which no record compares Greater than the one
\* after it under the caller's comparator.
C21_SearchSortedIsSortedSearch ==
    (status = "open" /\ last.op = "search_sorted")
        => /\ IsSearchResult(last.out, last.id.criteria)
           /\ \E found \in Series_search(element_for_key, last.id.criteria) :
                  /\ Len(found) = Len(last.out)
                  /\ SeqRange(found) = SeqRange(last.out)
           /\ \A i \in 1 .. Len(last.out) - 1 :
                  compare(last.id.compare, last.out[i], last.out[i + 1]) # "Greater"

\* Two records sorted by timestamp, the later id first.
C21_Witness ==
    /\ status = "open"
    /\ last.op = "search_sorted"
    /\ last.id.compare = "timestamp"
    /\ Len(last.out) = 2
    /\ last.out[1].id > last.out[2].id
    /\ timestamp(last.out[1].data) < timestamp(last.out[2].data)

\* C22: exact_time(t) accepts a record exactly when the record is dated t, and
\* a search with exact_time(t) returns exactly the live records dated t, each
\* once.
C22_ExactTime ==
    (status = "open" /\ last.op = "search")
        => \A t \in QueryTimes :
               /\ \A record \in Values :
                      apply(exact_time(t), record) <=> (timestamp(record) = t)
               /\ last.id = exact_time(t)
                      => /\ {last.out[i].id : i \in 1 .. Len(last.out)}
                                = {id \in DOMAIN element_for_key :
                                       timestamp(element_for_key[id]) = t}
                         /\ \A i, j \in 1 .. Len(last.out) :
                                last.out[i].id = last.out[j].id => i = j
                         /\ \A i \in 1 .. Len(last.out) :
                                last.out[i].data = element_for_key[last.out[i].id]

\* A search with exact_time(1) that found one of two live records.
C22_Witness ==
    /\ status = "open"
    /\ last.op = "search"
    /\ last.id = exact_time(1)
    /\ Len(last.out) = 1
    /\ Cardinality(DOMAIN element_for_key) = 2

\* The time buckets and the tag buckets that hold an id.
TimeKeysOf(ix, id) == {t \in DOMAIN ix.ids_by_time : id \in SeqRange(ix.ids_by_time[t])}

TagKeysOf(ix, id) == {t \in DOMAIN ix.ids_by_tag : id \in SeqRange(ix.ids_by_tag[t])}

\* The index holds an id as a record says: under the record's timestamp and
\* no other, under the record's (tracked) tags and no other; under nothing
\* when there is no record.
IndexReflects(ix, id, rec) ==
    CASE ix.kind = "IndexByTime" ->
             TimeKeysOf(ix, id) = {timestamp(rec[i]) : i \in DOMAIN rec}
      [] ix.kind = "IndexByAllTags" ->
             TagKeysOf(ix, id) = UNION {SeqRange(tags(rec[i])) : i \in DOMAIN rec}
      [] ix.kind = "IndexBySelectedTags" ->
             TagKeysOf(ix, id) = UNION {SeqRange(tags(rec[i])) \cap SeqRange(SelectedTags) :
                                          i \in DOMAIN rec}
      [] OTHER -> TRUE

\* The ids held in the buckets of an index.
BucketIds(ix) ==
    UNION ({SeqRange(ix.ids_by_time[t]) : t \in DOMAIN ix.ids_by_time}
               \cup {SeqRange(ix.ids_by_tag[t]) : t \in DOMAIN ix.ids_by_tag})

\* C23: a successful update leaves the index as Indexer::update makes it when
\* called with old = the value stored under the id before the update and
\* new = the updated value.
C23_UpdateHandsOldValue ==
    [][\A id \in Ids, data \in Values :
           (/\ Update(id, data, TRUE)
            /\ id \in DOMAIN element_for_key
            /\ fails = 0
            /\ last'.res = "Ok")
           => /\ indexer' = Indexer_update(indexer, id, element_for_key[id], data).ix
              /\ IndexReflects(indexer', id, Some(data))]_vars

\* C24: a delete of a live id does not panic, whatever puts, updates and
\* deletes (all of them written to the log) came before.
C24_DeleteNeverPanics ==
    (last.op = "delete" /\ fails = 0) => last.res # "panic"

\* C25: every id held in a time bucket or a tag bucket is a key of the
\* primary map, in every state of an open Series (all calls written to the
\* log), so no retrieval meets an id without a record.
C25_BucketIdsAreLive ==
    (status = "open" /\ fails = 0)
        => /\ BucketIds(indexer) \subseteq DOMAIN element_for_key
           /\ \A r \in ProperRanges : \A o \in search_range(r) : ~o.panic
           /\ \A tag \in Tags : \A o \in retrieve_tagged(tag) : ~o.panic

\* C27: when a put, update or delete has appended its line, the primary map
\* and the index hold what the line says: the id with the line's data, indexed
\* under that data's timestamp and tags, or no such id after a tombstone.
C27_LogNeverAhead ==
    [][(/\ status = "open"
        /\ fails = 0
        /\ last'.op \in {"put", "update", "delete"}
        /\ Len(file') = Len(file) + 1)
           => LET line == file'[Len(file')]
              IN  /\ IF line.data # None
                     THEN /\ line.id \in DOMAIN element_for_key'
                          /\ element_for_key'[line.id] = line.data[1]
                     ELSE line.id \notin DOMAIN element_for_key'
                  /\ IndexReflects(indexer', line.id, line.data)]_vars

\* C28: an update of a live id that returns Ok appends exactly one line, the
\* line of the id with the new data, also when the new data is the stored
\* data or has the stored timestamp and tags.
C28_UpdateAlwaysAppends ==
    [][\A id \in Ids, data \in Values :
           (/\ Update(id, data, TRUE)
            /\ id \in DOMAIN element_for_key
            /\ last'.res = "Ok")
           => file' = Append(file, write_line(id, Some(data)))]_vars

\* An update with the data the id already had: the same line twice in a row.
C28_Witness ==
    /\ status = "open"
    /\ last.op = "update"
    /\ last.res = "Ok"
    /\ Len(file) >= 2
    /\ file[Len(file)] = file[Len(file) - 1]
    /\ file[Len(file)].id = last.id

\* The ids a bucket holds, none when there is no bucket for the key.
BucketOf(ids_by_key, k) == IF k \in DOMAIN ids_by_key THEN ids_by_key[k] ELSE << >>

StrictlyAscending(b) == \A i, j \in 1 .. Len(b) : i < j => b[i] < b[j]

\* C26: after any inserts, removes and updates that keep to the trait's
\* preconditions, with records without repeated tags, no call has panicked,
\* every bucket is strictly ascending by id, and the bucket of a timestamp or
\* of a (tracked) tag holds exactly the ids of the records inserted and not
\* removed that have this timestamp or carry this tag.
C26_SortedBuckets ==
    /\ last.res # "panic"
    /\ \A t \in DOMAIN indexer.ids_by_time : StrictlyAscending(indexer.ids_by_time[t])
    /\ \A t \in DOMAIN indexer.ids_by_tag : StrictlyAscending(indexer.ids_by_tag[t])
    /\ indexer.kind = "IndexByTime"
           => \A t \in Times :
                  SeqRange(BucketOf(indexer.ids_by_time, t))
                      = {id \in DOMAIN element_for_key : timestamp(element_for_key[id]) = t}
    /\ indexer.kind = "IndexByAllTags"
           => \A tag \in Tags : SeqRange(BucketOf(indexer.ids_by_tag, tag)) = ScanTagged(tag)
    /\ indexer.kind = "IndexBySelectedTags"
           => /\ DOMAIN indexer.ids_by_tag = SeqRange(SelectedTags)
              /\ \A tag \in SeqRange(SelectedTags) :
                     SeqRange(indexer.ids_by_tag[tag]) = ScanTagged(tag)

\* An update that moved an id into the tag bucket another id is in.
C26_Witness ==
    /\ last.op = "Indexer::update"
    /\ indexer.kind = "IndexByAllTags"
    /\ BucketOf(indexer.ids_by_tag, "a") = <<1, 2>>
    /\ BucketOf(indexer.ids_by_tag, "b") # << >>

\* The record a put or a delete step is about.
OnlyUntracked(rec) == SeqRange(tags(rec)) \cap SeqRange(SelectedTags) = {}

\* C29: under IndexBySelectedTags::for_tags(S) the bucket keys are S after
\* every step, and a put or a delete of a record that carries no tag of S
\* leaves the index as it was.
C29_SelectedBucketsFixed ==
    [][/\ indexer'.kind = "IndexBySelectedTags"
            => DOMAIN indexer'.ids_by_tag = SeqRange(SelectedTags)
       /\ (/\ status = "open"
           /\ indexer.kind = "IndexBySelectedTags"
           /\ \/ /\ last'.op = "put"
                 /\ last'.id \in DOMAIN element_for_key'
                 /\ OnlyUntracked(element_for_key'[last'.id])
              \/ /\ last'.op = "delete"
                 /\ last'.id \in DOMAIN element_for_key
                 /\ OnlyUntracked(element_for_key[last'.id]))
            => indexer' = indexer]_vars

\* A put of a record tagged b only, beside a record in the bucket of a.
C29_Witness ==
    /\ status = "open"
    /\ indexer.kind = "IndexBySelectedTags"
    /\ last.op = "put"
    /\ last.res = "Ok"
    /\ tags(element_for_key[last.id]) = <<"b">>
    /\ indexer.ids_by_tag["a"] # << >>

\* C30: under IndexBySelectedTags::for_tags(S), retrieve_tagged of a tag
\* outside S returns exactly the live records that carry the tag, each once
\* with its stored value, whatever puts, updates and deletes came before.
C30_UntrackedTagFallsBack ==
    (/\ last.op = "retrieve_tagged"
     /\ indexer.kind = "IndexBySelectedTags"
     /\ last.id \notin SeqRange(SelectedTags))
        => /\ last.res = "Ok"
           /\ {last.out[i].id : i \in 1 .. Len(last.out)} = ScanTagged(last.id)
           /\ Len(last.out) = Cardinality(ScanTagged(last.id))
           /\ \A i \in 1 .. Len(last.out) :
                  last.out[i].data = element_for_key[last.out[i].id]

\* retrieve_tagged of the untracked tag b finding a record an update tagged b.
C30_Witness ==
    /\ status = "open"
    /\ indexer.kind = "IndexBySelectedTags"
    /\ last.op = "retrieve_tagged"
    /\ last.id = "b"
    /\ Len(last.out) = 1
    /\ Cardinality(DOMAIN element_for_key) = 2
    /\ \E i \in 1 .. Len(file) :
           /\ file[i].id = last.out[1].id
           /\ file[i].data # None
           /\ "b" \notin SeqRange(tags(file[i].data[1]))

\* C31: under IndexByTags::for_tags(S), retrieve_tagged of a tag outside S
\* returns exactly the records in the index that carry the tag, each once, and
\* no insert or remove of a record fails.
C31_ByTagsUntrackedFallsBack ==
    (indexer.kind = "IndexByTags" /\ ~indexer.may_make_new_buckets) =>
        /\ (last.op = "IndexByTags::retrieve_tagged"
                /\ last.id \notin SeqRange(SelectedTags))
              => /\ last.res = "Ok"
                 /\ SeqRange(last.out) = ScanTagged(last.id)
                 /\ Len(last.out) = Cardinality(ScanTagged(last.id))
        /\ last.op \in {"IndexByTags::insert", "IndexByTags::remove"}
              => last.res = "Ok"

OutIds(out) == {out[i].id : i \in 1 .. Len(out)}

\* The records of out are distinct and carry the values the primary map holds.
OutIsOfMap(out) ==
    /\ Len(out) = Cardinality(OutIds(out))
    /\ \A i \in 1 .. Len(out) :
           /\ out[i].id \in DOMAIN element_for_key
           /\ out[i].data = element_for_key[out[i].id]

\* C32: on the axis a strategy does not index, retrieval is the full scan of
\* NoIndex over the primary map: retrieve_tagged under IndexByTime, and
\* search_range under IndexByAllTags and IndexBySelectedTags, return Ok with
\* exactly the live records whose current value matches, each once, also after
\* updates that changed the timestamp or the tags.
C32_UnindexedAxisIsFullScan ==
    /\ (last.op = "retrieve_tagged" /\ indexer.kind = "IndexByTime")
          => /\ last.res = "Ok"
             /\ OutIds(last.out) = ScanTagged(last.id)
             /\ OutIsOfMap(last.out)
             /\ \E o \in NoIndex_retrieve_tagged(element_for_key, last.id) :
                    o.out = [i \in 1 .. Len(last.out) |-> last.out[i].id]
    /\ (last.op = "search_range"
            /\ indexer.kind \in {"IndexByAllTags", "IndexBySelectedTags"})
          => /\ last.res = "Ok"
             /\ OutIds(last.out) = ScanRange(last.id)
             /\ OutIsOfMap(last.out)
             /\ \E o \in NoIndex_retrieve_range(element_for_key, last.id) :
                    o.out = [i \in 1 .. Len(last.out) |-> last.out[i].id]

\* retrieve_tagged under IndexByTime finding a record that an update gave the
\* tag, and not the record that an update took it from.
C32_Witness ==
    /\ indexer.kind = "IndexByTime"
    /\ last.op = "retrieve_tagged"
    /\ last.res = "Ok"
    /\ Len(last.out) = 1
    /\ Cardinality(DOMAIN element_for_key) = 2
    /\ \E i \in 1 .. Len(file) :
           /\ file[i].id = last.out[1].id
           /\ file[i].data # None
           /\ last.id \notin SeqRange(tags(file[i].data[1]))

C34_NoRollbackOnFailedAppend ==
    [][(last'.res = "IOError" /\ last'.op \in {"put", "update", "delete"}) =>
          /\ file' = file
          /\ (fails = 0 /\ element_for_key' # element_for_key)
                => element_for_key' # FoldView(file')
          /\ \A entry \in Values, id \in Ids :
                 Put(entry, id, FALSE) =>
                     /\ id \notin DOMAIN element_for_key
                     /\ element_for_key' = MapInsert(element_for_key, id, entry)
                     /\ indexer' = Indexer_insert(indexer, id, entry)
          /\ \A id \in Ids, data \in Values :
                 Update(id, data, FALSE) =>
                     /\ id \in DOMAIN element_for_key
                     /\ element_for_key' = MapInsert(element_for_key, id, data)
                     /\ indexer' = Indexer_update(indexer, id, element_for_key'[id], data).ix
          /\ \A id \in Ids :
                 Delete(id, FALSE) =>
                     /\ id \in DOMAIN element_for_key
                     /\ element_for_key' = MapRemove(element_for_key, id)
                     /\ indexer' = Indexer_remove(indexer, id, element_for_key[id]).ix
      ]_vars

\* A delete whose append failed: the record is gone from the map and from its
\* time bucket, and a reopen would load it again.
C34_Witness ==
    /\ status = "open"
    /\ indexer.kind = "IndexByTime"
    /\ last.op = "delete"
    /\ last.res = "IOError"
    /\ last.id \notin DOMAIN element_for_key
    /\ last.id \in DOMAIN FoldView(file)
    /\ TimeKeysOf(indexer, last.id) = {}

\* start bound greater than end bound, or equal bounds with both excluded.
EmptyOrInverted(r) ==
    /\ r.start.kind # "Unbounded"
    /\ r.end.kind # "Unbounded"
    /\ \/ r.start.t > r.end.t
       \/ r.start.t = r.end.t /\ r.start.kind = "Excluded" /\ r.end.kind = "Excluded"

\* C35: search_range over a range whose start is after its end, or whose equal
\* bounds are both excluded, returns Ok with no record, under every strategy.
C35_InvertedRangeIsEmpty ==
    (last.op = "search_range" /\ EmptyOrInverted(last.id))
        => last.res = "Ok" /\ last.out = << >>

\* C36: retrieve_tagged under IndexByAllTags and IndexBySelectedTags returns
\* no record twice, also when a record lists the tag more than once.
C36_TaggedAtMostOnce ==
    (/\ last.op = "retrieve_tagged"
     /\ last.res = "Ok"
     /\ indexer.kind \in {"IndexByAllTags", "IndexBySelectedTags"})
        => Len(last.out) = Cardinality(OutIds(last.out))

ReadOps == {"get", "records", "search", "search_sorted", "search_range", "retrieve_tagged"}

\* C37: get, records, search, search_sorted, search_range and retrieve_tagged
\* leave the primary map, the index and the file as they are, and a read that
\* follows the same read with the same argument returns the same set of
\* records.
C37_ReadsChangeNothing ==
    [][last'.op \in ReadOps =>
          /\ element_for_key' = element_for_key
          /\ indexer' = indexer
          /\ file' = file
          /\ (last.op = last'.op /\ last.id = last'.id
                  /\ last.res = "Ok" /\ last'.res = "Ok")
                => SeqRange(last'.out) = SeqRange(last.out)
      ]_vars

\* records returning two records in descending id order, right after a call
\* of records that returned them in ascending order.
C37_Witness ==
    /\ status = "open"
    /\ last.op = "records"
    /\ Len(last.out) = 2
    /\ last.out[1].id > last.out[2].id

====
